---- MODULE Spec2Model ----
(***************************************************************************)
(* SipHash 2-4 streaming engine (src/libcore/hash/sip.rs): SipState with   *)
(* new_with_keys, reset, write and result.                                 *)
(*                                                                         *)
(* A u64 is a tuple of four 16-bit limbs, least significant limb first,    *)
(* so that every intermediate value stays inside TLC's integer range.      *)
(* All word operations are computed limb by limb, modulo 2^64.             *)
(***************************************************************************)
EXTENDS Integers, Sequences, FiniteSets, TLC

(* ------------------------------------------------------------------ *)
(* 64-bit unsigned arithmetic                                          *)
(* ------------------------------------------------------------------ *)

\* 2^n for n in 0..16
Pow2Tab == <<1, 2, 4, 8, 16, 32, 64, 128, 256, 512, 1024, 2048, 4096, 8192,
             16384, 32768, 65536>>
Pow2(n) == Pow2Tab[n + 1]

Zero64 == <<0, 0, 0, 0>>

\* the element of a one-element set. Operators below that use an argument
\* several times bind it first, as in Only({F(a) : a \in {x}}), so that the
\* argument is computed once, like the `let` or the lvalue it stands for
Only(S) == CHOOSE r \in S : TRUE

\* limb i of x, 0 outside 1..4 (bits shifted in are zero)
Limb(x, i) == IF i >= 1 /\ i <= 4 THEN x[i] ELSE 0

\* `n as u64` for a value n < 2^31 (a byte, a buffer length, a small literal)
U64(n) == Only({<<a % 65536, a \div 65536, 0, 0>> : a \in {n}})

\* bitwise xor, or, and of two n-bit numbers, bit by bit
RECURSIVE XorBits(_, _, _)
XorBits(a, b, n) ==
    IF n = 0 THEN 0
    ELSE ((a + b) % 2) + 2 * XorBits(a \div 2, b \div 2, n - 1)

RECURSIVE OrBits(_, _, _)
OrBits(a, b, n) ==
    IF n = 0 THEN 0
    ELSE (IF a % 2 = 1 \/ b % 2 = 1 THEN 1 ELSE 0)
         + 2 * OrBits(a \div 2, b \div 2, n - 1)

RECURSIVE AndBits(_, _, _)
AndBits(a, b, n) ==
    IF n = 0 THEN 0
    ELSE (IF a % 2 = 1 /\ b % 2 = 1 THEN 1 ELSE 0)
         + 2 * AndBits(a \div 2, b \div 2, n - 1)

\* the same on bytes, tabulated once
XorTab == [a \in 0..255 |-> [b \in 0..255 |-> XorBits(a, b, 8)]]
OrTab == [a \in 0..255 |-> [b \in 0..255 |-> OrBits(a, b, 8)]]

\* on 16-bit limbs: low byte and high byte
Xor16(a, b) == XorTab[a % 256][b % 256] + 256 * XorTab[a \div 256][b \div 256]
Or16(a, b) == OrTab[a % 256][b % 256] + 256 * OrTab[a \div 256][b \div 256]

\* x ^ y
Xor64(x, y) ==
    Only({<<Xor16(a[1], b[1]), Xor16(a[2], b[2]),
            Xor16(a[3], b[3]), Xor16(a[4], b[4])>> : a \in {x}, b \in {y}})

\* x | y
Or64(x, y) ==
    Only({<<Or16(a[1], b[1]), Or16(a[2], b[2]),
            Or16(a[3], b[3]), Or16(a[4], b[4])>> : a \in {x}, b \in {y}})

\* x & y
And64(x, y) ==
    Only({<<AndBits(a[1], b[1], 16), AndBits(a[2], b[2], 16),
            AndBits(a[3], b[3], 16), AndBits(a[4], b[4], 16)>>
          : a \in {x}, b \in {y}})

\* x + y on u64: the carry out of the top limb is dropped (wrapping add)
Add64(x, y) ==
    Only({LET s1 == a[1] + b[1]
              s2 == a[2] + b[2] + (s1 \div 65536)
              s3 == a[3] + b[3] + (s2 \div 65536)
              s4 == a[4] + b[4] + (s3 \div 65536)
          IN  <<s1 % 65536, s2 % 65536, s3 % 65536, s4 % 65536>>
          : a \in {x}, b \in {y}})

\* limb i of x << (16*q + r)
ShlLimb(x, q, r, i) ==
    ((Limb(x, i - q) % Pow2(16 - r)) * Pow2(r))
    + (Limb(x, i - q - 1) \div Pow2(16 - r))

\* x << b on u64, 0 <= b < 64: bits shifted past bit 63 are lost
Shl64(x, b) ==
    Only({<<ShlLimb(a, q, r, 1), ShlLimb(a, q, r, 2),
            ShlLimb(a, q, r, 3), ShlLimb(a, q, r, 4)>>
          : a \in {x}, q \in {b \div 16}, r \in {b % 16}})

\* limb i of x >> (16*q + r)
ShrLimb(x, q, r, i) ==
    (Limb(x, i + q) \div Pow2(r))
    + ((Limb(x, i + q + 1) % Pow2(r)) * Pow2(16 - r))

\* x >> b on u64, 0 <= b <= 64
Shr64(x, b) ==
    Only({<<ShrLimb(a, q, r, 1), ShrLimb(a, q, r, 2),
            ShrLimb(a, q, r, 3), ShrLimb(a, q, r, 4)>>
          : a \in {x}, q \in {b \div 16}, r \in {b % 16}})

\* rotl!(x, b) == (x << b) | (x >> (64 - b))
rotl(x, b) == Only({Or64(Shl64(a, b), Shr64(a, 64 - b)) : a \in {x}})

(* ------------------------------------------------------------------ *)
(* compress!, reset, new_with_keys, result                             *)
(* ------------------------------------------------------------------ *)

\* compress!(v0, v1, v2, v3) on the four words of a record
compress(v) ==
    Only({LET a0 == Add64(s.v0, s.v1)
              a1 == Xor64(rotl(s.v1, 13), a0)
              b0 == rotl(a0, 32)
              a2 == Add64(s.v2, s.v3)
              a3 == Xor64(rotl(s.v3, 16), a2)
              c0 == Add64(b0, a3)
              b3 == Xor64(rotl(a3, 21), c0)
              b2 == Add64(a2, a1)
              b1 == Xor64(rotl(a1, 17), b2)
              c2 == rotl(b2, 32)
          IN  [s EXCEPT !.v0 = c0, !.v1 = b1, !.v2 = c2, !.v3 = b3]
          : s \in {v}})

\* v3 ^= m; compress; compress; v0 ^= m  (lines 170-173, 187-190, 137-140)
round(v, m) ==
    Only({[x EXCEPT !.v0 = Xor64(x.v0, w)]
          : x \in {compress(compress([v EXCEPT !.v3 = Xor64(v.v3, m)]))},
            w \in {m}})

\* the four initialisation constants of reset, as limbs
C0 == <<25973, 28787, 28005, 29551>>   \* 0x736f6d6570736575
C1 == <<28525, 28260, 29281, 25711>>   \* 0x646f72616e646f6d
C2 == <<29281, 28261, 26469, 27769>>   \* 0x6c7967656e657261
C3 == <<25971, 31092, 25698, 29797>>   \* 0x7465646279746573

\* reset storing the keyed word back into k0 instead of v0
reset_rekey(self) ==
    [self EXCEPT !.length = Zero64,
                 !.k0 = Xor64(self.k0, C0),
                 !.v1 = Xor64(self.k1, C1),
                 !.v2 = Xor64(self.k0, C2),
                 !.v3 = Xor64(self.k1, C3),
                 !.ntail = 0]

\* SipState::reset: tail and the keys are not assigned
reset(self) ==
    [self EXCEPT !.length = Zero64,
                 !.v0 = Xor64(self.k0, C0),
                 !.v1 = Xor64(self.k1, C1),
                 !.v2 = Xor64(self.k0, C2),
                 !.v3 = Xor64(self.k1, C3),
                 !.ntail = 0]

\* new_with_keys without the call of reset
new_with_keys_noreset(key0, key1) ==
    [k0 |-> key0, k1 |-> key1, length |-> Zero64,
     v0 |-> Zero64, v1 |-> Zero64, v2 |-> Zero64, v3 |-> Zero64,
     tail |-> Zero64, ntail |-> 0]

\* SipState::new_with_keys
new_with_keys(key0, key1) ==
    reset([k0 |-> key0, k1 |-> key1, length |-> Zero64,
           v0 |-> Zero64, v1 |-> Zero64, v2 |-> Zero64, v3 |-> Zero64,
           tail |-> Zero64, ntail |-> 0])

\* padword with the length byte shifted by 48
padword_shift48(self) ==
    Or64(Shl64(And64(self.length, U64(255)), 48), self.tail)

\* line 135: b = ((self.length as u64 & 0xff) << 56) | self.tail
padword(self) == Or64(Shl64(And64(self.length, U64(255)), 56), self.tail)

\* lines 130-133: the local copies of v0..v3
locals(self) == [v0 |-> self.v0, v1 |-> self.v1, v2 |-> self.v2, v3 |-> self.v3]

\* finalization with three compressions instead of four
finish_three(l) ==
    Only({Xor64(Xor64(Xor64(f.v0, f.v1), f.v2), f.v3)
          : f \in {compress(compress(compress(
                       [l EXCEPT !.v2 = Xor64(l.v2, U64(255))])))}})

\* lines 142-148 on the locals: v2 ^= 0xff, four compressions, v0^v1^v2^v3
finish(l) ==
    Only({Xor64(Xor64(Xor64(f.v0, f.v1), f.v2), f.v3)
          : f \in {compress(compress(compress(compress(
                       [l EXCEPT !.v2 = Xor64(l.v2, U64(255))]))))}})

\* result mixing self.v0..v3 in place instead of the local copies
result_inplace(self) ==
    Only({[self |-> [self EXCEPT !.v0 = l.v0, !.v1 = l.v1,
                                 !.v2 = l.v2, !.v3 = l.v3],
           digest |-> finish(l)]
          : l \in {round(locals(self), padword(self))}})

\* SipState::result(&self): the mixing runs on the local copies of v0..v3;
\* `self` is what the engine holds afterwards, `digest` the value returned
result(self) ==
    [self |-> self, digest |-> finish(round(locals(self), padword(self)))]

\* keys of the published SipHash-2-4 test set
RefK0 == <<256, 770, 1284, 1798>>      \* 0x0706050403020100
RefK1 == <<2312, 2826, 3340, 3854>>    \* 0x0f0e0d0c0b0a0908

(* ------------------------------------------------------------------ *)
(* u8to64_le! and write                                                *)
(* ------------------------------------------------------------------ *)

\* buf[j], 0-based; an index outside the buffer is a fault (see ReadOk),
\* the value 0 only keeps the operator total
At(buf, j) == IF j >= 0 /\ j < Len(buf) THEN buf[j + 1] ELSE 0

\* every index in i .. i+n-1 lies in [0, buf.len())
ReadOk(buf, i, n) == \A t \in 0..(n - 1) : (t + i >= 0) /\ (t + i < Len(buf))

\* u8to64_le!(buf, i): eight bytes, fixed form
u8to64_le8(buf, i) ==
    Or64(Or64(Or64(Or64(Or64(Or64(Or64(
        U64(At(buf, 0 + i)),
        Shl64(U64(At(buf, 1 + i)), 8)),
        Shl64(U64(At(buf, 2 + i)), 16)),
        Shl64(U64(At(buf, 3 + i)), 24)),
        Shl64(U64(At(buf, 4 + i)), 32)),
        Shl64(U64(At(buf, 5 + i)), 40)),
        Shl64(U64(At(buf, 6 + i)), 48)),
        Shl64(U64(At(buf, 7 + i)), 56))

\* the while loop of u8to64_le!(buf, i, len), from t with accumulator out
RECURSIVE u8loop(_, _, _, _, _)
u8loop(buf, i, len, t, out) ==
    IF t < len
    THEN u8loop(buf, i, len, t + 1,
                Or64(out, Shl64(U64(At(buf, t + i)), t * 8)))
    ELSE out

\* u8to64_le!(buf, i, len)
u8to64_le(buf, i, len) == u8loop(buf, i, len, 0, Zero64)

\* EndOf with the mask forgotten
EndOf_nomask(len) == len

\* LeftOf with the mask 0xf
LeftOf_mask15(len) == len % 16

\* len & !0x7 (line 180) and len & 0x7 (line 181) on a uint
EndOf(len) == len - (len % 8)
LeftOf(len) == len % 8

\* the block loop of write (lines 183-193): state and index after it, the
\* number of iterations, and whether every byte read was inside msg
RECURSIVE blocks(_, _, _, _, _, _)
blocks(self, msg, i, end, n, ok) ==
    IF i < end
    THEN blocks(round(self, u8to64_le8(msg, i)), msg, i + 8, end,
                n + 1, ok /\ ReadOk(msg, i, 8))
    ELSE [self |-> self, i |-> i, n |-> n, ok |-> ok]

\* lines 195-196 after the block loop r: the leftover bytes go to tail.
\* ok: length - needed did not go below zero, the loop ran len/8 times, and
\* every byte read was inside msg
leftover(r, msg, len) ==
    Only({[self |-> [b.self EXCEPT !.tail = u8to64_le(msg, b.i, LeftOf(len)),
                                   !.ntail = LeftOf(len)],
           ok   |-> /\ len >= 0
                    /\ b.ok
                    /\ b.n = len \div 8
                    /\ ReadOk(msg, b.i, LeftOf(len))]
          : b \in {r}})

\* lines 178-196, entered with the pending tail flushed and `needed` bytes
\* of msg consumed
tailpart(self, msg, needed) ==
    leftover(blocks(self, msg, needed, EndOf(Len(msg) - needed), 0, TRUE),
             msg, Len(msg) - needed)

\* addlen with = for +=
addlen_assign(self, msg) == [self EXCEPT !.length = U64(Len(msg))]

\* lines 155-156: self.length += msg.len(), wrapping
addlen(self, msg) == [self EXCEPT !.length = Add64(self.length, U64(Len(msg)))]

\* which path write takes (lines 160 and 162)
branchOf(self, msg) ==
    IF self.ntail # 0
    THEN IF Len(msg) < 8 - self.ntail THEN "partial" ELSE "flush"
    ELSE "direct"

\* merged with the shift by 8*ntail forgotten
merged_noshift(self, msg, n) == Or64(self.tail, u8to64_le(msg, 0, n))

\* u8to64_le!(msg, 0, n) << 8*self.ntail, OR'ed into tail (lines 163, 168)
merged(self, msg, n) ==
    Or64(self.tail, Shl64(u8to64_le(msg, 0, n), 8 * self.ntail))

\* lines 163-165: fewer than `needed` bytes, they join the tail
partial(self, msg) ==
    [self |-> [self EXCEPT !.tail = merged(self, msg, Len(msg)),
                           !.ntail = self.ntail + Len(msg)],
     ok   |-> ReadOk(msg, 0, Len(msg))]

\* flushed without the message round: the pending block is dropped
flushed_noround(self, msg, needed) == [self EXCEPT !.ntail = 0]

\* lines 168-175: the tail and the first `needed` bytes make one block
flushed(self, msg, needed) ==
    [round(self, merged(self, msg, needed)) EXCEPT !.ntail = 0]

\* a call's result with one more condition on its not faulting
also(r, cond) == Only({[self |-> w.self, ok |-> w.ok /\ cond] : w \in {r}})

\* SipState::write. `self` is the engine afterwards; `ok` says the call did
\* not fault: the unsigned subtractions 8 - ntail (line 161) and
\* length - needed (line 179) stayed >= 0, the shift 8*ntail stayed below
\* 64, and every index read by u8to64_le! was inside msg
write(self, msg) ==
    LET length == Len(msg)
        s1 == addlen(self, msg)
        needed == 8 - s1.ntail
    IN  IF s1.ntail # 0
        THEN IF length < needed
             THEN also(partial(s1, msg), needed >= 0 /\ 8 * s1.ntail < 64)
             ELSE also(tailpart(flushed(s1, msg, needed), msg, needed),
                       /\ needed >= 0
                       /\ 8 * s1.ntail < 64
                       /\ ReadOk(msg, 0, needed))
        ELSE tailpart(s1, msg, 0)

(* ------------------------------------------------------------------ *)
(* Constructors, clone, SipHasher and the entry points                 *)
(* ------------------------------------------------------------------ *)

\* SipState::new keyed with the published test keys instead of (0, 0)
SipState_new_refkeys == new_with_keys(RefK0, RefK1)

\* SipState::new(), lines 92-96
SipState_new == new_with_keys(Zero64, Zero64)

\* clone building a new engine from the keys instead of copying the fields
clone_rekeyed(self) == new_with_keys(self.k0, self.k1)

\* Clone for SipState, lines 200-205: `*self`, a copy of every field
clone(self) == self

\* SipHasher::new_with_keys, lines 229-236
SipHasher_new_with_keys(key0, key1) == [k0 |-> key0, k1 |-> key1]

\* SipHasher::new(), lines 222-227
SipHasher_new == SipHasher_new_with_keys(Zero64, Zero64)

\* value.hash(&mut state), lines 243, 259, 267. A value is given by the
\* write calls its serialization makes: a sequence of buffers, written in
\* order to the engine handed to it
RECURSIVE feed(_, _)
feed(state, value) ==
    IF value = <<>> THEN state
    ELSE feed(write(state, Head(value)).self, Tail(value))

\* Hasher::hash for SipHasher, lines 239-246
SipHasher_hash(self, value) ==
    result(feed(new_with_keys(self.k0, self.k1), value)).digest

\* hash, lines 255-261
hash(value) == result(feed(SipState_new, value)).digest

\* hash_with_keys, lines 263-269
hash_with_keys(k0, k1, value) ==
    result(feed(new_with_keys(k0, k1), value)).digest

(* ------------------------------------------------------------------ *)
(* The engine and its caller                                           *)
(* ------------------------------------------------------------------ *)

\* longest logical message the caller feeds
MaxLen == 17
\* how many times the caller resets the engine
MaxResets == 1

\* the key pairs tried: the default keys and the published test keys
Keys == {<<Zero64, Zero64>>, <<RefK0, RefK1>>}

\* the logical message: byte j is seed + 37*j mod 256, which mixes low and
\* high bytes (200, 237, 18, 55, ...)
Message(seed) == [j \in 1..MaxLen |-> (seed + 37 * (j - 1)) % 256]
Messages == {Message(200)}

NoRet == <<>>

VARIABLES
    st,       \* the SipState in use
    shadow,   \* a freshly constructed SipState given the same write calls
              \* as st since st's construction or last reset
    key,      \* the keys given to new_with_keys
    msg,      \* the caller's logical message
    start,    \* bytes of msg fed before the last reset
    pos,      \* bytes of msg fed so far
    fed,      \* sum of the lengths of the buffers written since
              \* construction or the last reset
    nresets,  \* number of reset calls
    op,       \* the last call: "new", "write", "reset", "result"
    branch,   \* the path the last write took ("none" before the first
              \* write after construction or reset)
    ret,      \* the value the last call returned (NoRet for unit)
    streak,   \* result calls in a row just made: 0, 1, or 2 for two or more
    ok,       \* no call so far has faulted
    hasher,   \* the SipHasher values in existence, by name
    call,     \* per call site: the call it began (entry point, hasher or
              \* keys, value)
    pc,       \* per call site: "idle", "feeding" or "done"
    eng,      \* the engines in existence, by the name of their owner
    idx,      \* per call site: buffers of the value written so far;
              \* per cloned engine: bytes written since construction
    out,      \* per call site: the digest returned (NoRet before)
    log       \* per cloned engine: the calls made on it since the clone,
              \* a write by its length and a reset by -1

\* the single engine and its caller
svars == <<st, shadow, key, msg, start, pos, fed, nresets, op, branch, ret,
           streak, ok>>
\* the call sites, hashers and their engines
mvars == <<hasher, call, pc, eng, idx, out, log>>

vars == <<svars, mvars>>

\* the call sites, also the owners of the two engines of a clone
Procs == {"a", "b"}

\* the hashers in existence: SipHasher::new() and one with the test keys
HasherPool ==
    [h \in {"default", "keyed"} |->
        IF h = "default" THEN SipHasher_new
        ELSE SipHasher_new_with_keys(RefK0, RefK1)]

\* no call site has begun a call and no engine beside st exists
NoCalls ==
    /\ hasher = HasherPool
    /\ call = <<>>
    /\ pc = [p \in Procs |-> "idle"]
    /\ eng = <<>>
    /\ idx = [p \in Procs |-> 0]
    /\ out = [p \in Procs |-> NoRet]
    /\ log = [p \in Procs |-> <<>>]

\* the bytes written since construction or the last reset
absorbed == SubSeq(msg, start + 1, pos)

Init ==
    /\ key \in Keys
    /\ msg \in Messages
    /\ st = new_with_keys(key[1], key[2])
    /\ shadow = st
    /\ start = 0
    /\ pos = 0
    /\ fed = 0
    /\ nresets = 0
    /\ op = "new"
    /\ branch = "none"
    /\ ret = NoRet
    /\ streak = 0
    /\ ok = TRUE
    /\ NoCalls

\* state.write(buf), buf the next n bytes of the message
Absorb(n) ==
    /\ pos + n <= MaxLen
    /\ LET buf == SubSeq(msg, pos + 1, pos + n)
           w == write(st, buf)
       IN  /\ st' = w.self
           /\ shadow' = write(shadow, buf).self
           /\ branch' = branchOf(st, buf)
           /\ ok' = (ok /\ w.ok)
           /\ fed' = fed + Len(buf)
    /\ pos' = pos + n
    /\ op' = "write"
    /\ ret' = NoRet
    /\ streak' = 0
    /\ UNCHANGED <<key, msg, start, nresets, mvars>>

\* state.reset()
Reset ==
    /\ nresets < MaxResets
    /\ st' = reset(st)
    /\ shadow' = new_with_keys(key[1], key[2])
    /\ start' = pos
    /\ fed' = 0
    /\ nresets' = nresets + 1
    /\ op' = "reset"
    /\ branch' = "none"
    /\ ret' = NoRet
    /\ streak' = 0
    /\ UNCHANGED <<key, msg, pos, ok, mvars>>

\* state.result()
Finalize ==
    /\ LET r == result(st)
       IN  /\ st' = r.self
           /\ ret' = r.digest
    /\ op' = "result"
    /\ streak' = IF streak = 0 THEN 1 ELSE 2
    /\ UNCHANGED <<shadow, key, msg, start, pos, fed, nresets, branch, ok,
                   mvars>>

Next ==
    \/ \E n \in 0..MaxLen : Absorb(n)
    \/ Reset
    \/ Finalize

Spec == Init /\ [][Next]_vars

(* ------------------------------------------------------------------ *)
(* Digest calls from several call sites                                *)
(* ------------------------------------------------------------------ *)

\* the values hashed, each given by the buffers its serialization writes:
\* three bytes, an empty buffer and nine bytes; one whole block
Values ==
    {<< <<200, 237, 18>>, <<>>, <<55, 92, 129, 166, 203, 240, 21, 58, 95>> >>,
     << <<1, 2, 3, 4, 5, 6, 7, 8>> >>}

\* the calls a call site can make: hash(x), hash_with_keys(k0, k1, x) and
\* h.hash(x) for a hasher h. `h` counts for "Hasher::hash" only and `k`
\* for "hash_with_keys" only
Calls ==
    {[kind |-> "hash", h |-> "default", k |-> <<Zero64, Zero64>>, value |-> x]
        : x \in Values}
    \cup {[kind |-> "hash_with_keys", h |-> "default", k |-> k, value |-> x]
        : k \in Keys, x \in Values}
    \cup {[kind |-> "Hasher::hash", h |-> h, k |-> <<Zero64, Zero64>>,
           value |-> x] : h \in DOMAIN HasherPool, x \in Values}

\* the engine the entry point of call c constructs (lines 258, 266, 242)
StateOf(c) ==
    CASE c.kind = "hash" -> SipState_new
      [] c.kind = "hash_with_keys" -> new_with_keys(c.k[1], c.k[2])
      [] c.kind = "Hasher::hash" ->
            new_with_keys(hasher[c.h].k0, hasher[c.h].k1)

\* one engine behind every call: a new call starts it over for all
begin_shared(engs, p, s) == [q \in DOMAIN engs \cup {p} |-> s]

\* `let mut state = ...` (lines 242, 258, 266): the engine is a new local
\* of the call
begin(engs, p, s) == engs @@ (p :> s)

\* the local `state` goes away when the call returns
drop(engs, p) == [q \in DOMAIN engs \ {p} |-> engs[q]]

DigestInit ==
    /\ NoCalls
    /\ key = <<Zero64, Zero64>>
    /\ msg = <<>>
    /\ st = SipState_new
    /\ shadow = st
    /\ start = 0
    /\ pos = 0
    /\ fed = 0
    /\ nresets = 0
    /\ op = "new"
    /\ branch = "none"
    /\ ret = NoRet
    /\ streak = 0
    /\ ok = TRUE

\* call site p enters an entry point: the first statement constructs the
\* engine
Begin(p, c) ==
    /\ pc[p] = "idle"
    /\ call' = call @@ (p :> c)
    /\ eng' = begin(eng, p, StateOf(c))
    /\ pc' = [pc EXCEPT ![p] = "feeding"]
    /\ UNCHANGED <<hasher, idx, out, log, svars>>

\* value.hash(&mut state) makes its next write call
Feed(p) ==
    /\ pc[p] = "feeding"
    /\ idx[p] < Len(call[p].value)
    /\ eng' = [eng EXCEPT ![p] = write(@, call[p].value[idx[p] + 1]).self]
    /\ idx' = [idx EXCEPT ![p] = @ + 1]
    /\ UNCHANGED <<hasher, call, pc, out, log, svars>>

\* value.hash has returned: state.result() is the value of the call
End(p) ==
    /\ pc[p] = "feeding"
    /\ idx[p] = Len(call[p].value)
    /\ out' = [out EXCEPT ![p] = result(eng[p]).digest]
    /\ eng' = drop(eng, p)
    /\ pc' = [pc EXCEPT ![p] = "done"]
    /\ UNCHANGED <<hasher, call, idx, log, svars>>

DigestNext ==
    \E p \in Procs :
        \/ \E c \in Calls : Begin(p, c)
        \/ Feed(p)
        \/ End(p)

DigestSpec == DigestInit /\ [][DigestNext]_vars

\* the zero-argument and keyed keys a call runs under
KeysOf(c) ==
    CASE c.kind = "hash" -> <<Zero64, Zero64>>
      [] c.kind = "hash_with_keys" -> c.k
      [] c.kind = "Hasher::hash" -> <<hasher[c.h].k0, hasher[c.h].k1>>

\* what call c returns when nothing else runs
Alone(c) ==
    CASE c.kind = "hash" -> hash(c.value)
      [] c.kind = "hash_with_keys" -> hash_with_keys(c.k[1], c.k[2], c.value)
      [] c.kind = "Hasher::hash" -> SipHasher_hash(hasher[c.h], c.value)

(* ------------------------------------------------------------------ *)
(* An engine and its clone                                             *)
(* ------------------------------------------------------------------ *)

\* calls made on an engine before the clone, and on each engine after it
MaxOps == 2
\* length of the buffers written
CopyChunk == 5

\* the buffer written to an engine that has been given t bytes so far
CopyBuf(t) == [j \in 1..CopyChunk |-> (200 + 37 * (t + j - 1)) % 256]

\* engine "a" has been constructed with the test keys
CopyInit ==
    /\ hasher = HasherPool
    /\ call = <<>>
    /\ pc = [p \in Procs |-> "idle"]
    /\ eng = ("a" :> new_with_keys(RefK0, RefK1))
    /\ idx = [p \in Procs |-> 0]
    /\ out = [p \in Procs |-> NoRet]
    /\ log = [p \in Procs |-> <<>>]
    /\ key = <<RefK0, RefK1>>
    /\ msg = <<>>
    /\ st = new_with_keys(RefK0, RefK1)
    /\ shadow = st
    /\ start = 0
    /\ pos = 0
    /\ fed = 0
    /\ nresets = 0
    /\ op = "new"
    /\ branch = "none"
    /\ ret = NoRet
    /\ streak = 0
    /\ ok = TRUE

\* eng[p].write(buf)
CopyWrite(p) ==
    /\ p \in DOMAIN eng
    /\ Len(log[p]) < MaxOps
    /\ eng' = [eng EXCEPT ![p] = write(@, CopyBuf(idx[p])).self]
    /\ idx' = [idx EXCEPT ![p] = @ + CopyChunk]
    /\ log' = [log EXCEPT ![p] = Append(@, CopyChunk)]
    /\ UNCHANGED <<hasher, call, pc, out, svars>>

\* eng[p].reset()
CopyReset(p) ==
    /\ p \in DOMAIN eng
    /\ Len(log[p]) < MaxOps
    /\ eng' = [eng EXCEPT ![p] = reset(@)]
    /\ log' = [log EXCEPT ![p] = Append(@, -1)]
    /\ UNCHANGED <<hasher, call, pc, idx, out, svars>>

\* let b = a.clone()
Clone ==
    /\ DOMAIN eng = {"a"}
    /\ eng' = eng @@ ("b" :> clone(eng["a"]))
    /\ idx' = [p \in Procs |-> idx["a"]]
    /\ log' = [p \in Procs |-> <<>>]
    /\ UNCHANGED <<hasher, call, pc, out, svars>>

CopyNext ==
    \/ \E p \in Procs : CopyWrite(p)
    \/ \E p \in Procs : CopyReset(p)
    \/ Clone

CopySpec == CopyInit /\ [][CopyNext]_vars

(* ------------------------------------------------------------------ *)
(* The published test set                                              *)
(* ------------------------------------------------------------------ *)

\* the SipHash-2-4 reference digests under the keys RefK0, RefK1: entry
\* n + 1 is the digest of the n bytes 0, 1, ..., n - 1 (limbs, low first)
RefDigest == <<
    << 3633, 56590, 56135, 29295>>,   \*  0: 0x726fdb47dd0e0e31
    <<26621, 37852, 14789, 29944>>,   \*  1: 0x74f839c593dc67fd
    <<20314, 55721, 32777,  3436>>,   \*  2: 0x0d6c8009d9a94f5a
    <<32301, 55291, 26262, 34151>>,   \*  3: 0x85676696d7fb7e2d
    <<34743, 10097, 38112, 53031>>,   \*  4: 0xcf2794e0277187b7
    <<42637, 52633, 21860,  6262>>,   \*  5: 0x18765564cd99a68d
    <<58318, 22782, 18030, 52169>>,   \*  6: 0xcbc9466e58fee3ce
    <<53559, 35585,   245, 43778>>,   \*  7: 0xab0200f58b01d137
    << 9314, 39571, 62841, 37877>>,   \*  8: 0x93f5f5799a932462
    <<58544,  2985, 33503, 40448>>,   \*  9: 0x9e0082df0ba9e4b0
    <<47603, 38109, 48069, 31325>>,   \* 10: 0x7a5dbbc594ddb9f3
    <<44455,  8811, 12102, 62643>>,   \* 11: 0xf4b32f46226bada7
    <<58875, 34318, 36796, 29982>>,   \* 12: 0x751e8fbc860ee5fb
    <<15760, 49284, 22055,  5354>>,   \* 13: 0x14ea5627c0843d90
    <<62190, 36474, 51856, 63267>>,   \* 14: 0xf723ca908e7af2ee
    <<17893, 18878, 51809, 41257>>,   \* 15: 0xa129ca6149be45e5
    <<39899, 22466, 52351, 16170>>,   \* 16: 0x3f2acc7f57c29bdb
    <<18324, 11454, 59893, 27034>>,   \* 17: 0x699ae9f52cbe4794
    <<54172, 38541, 46064, 19393>>,   \* 18: 0x4bc1b3f0968dd39c
    <<25021, 42873, 51485, 47981>>,   \* 19: 0xbb6dc91da77961bd
    <<61080,  6818, 23794, 48854>>,   \* 20: 0xbed65cf21aa2ee98
    <<26567, 11835, 52144, 53490>>,   \* 21: 0xd0f2cbb02e3b67c7
    <<16008, 58275, 26517, 37715>>,   \* 22: 0x93536795e3a33e88
    <<52936, 52572,   908, 43020>>,   \* 23: 0xa80c038ccd5ccec8
    <<44948, 63049, 20678, 47277>>,   \* 24: 0xb8ad50c6f649af94
    <<47338, 35461, 37598, 48353>>,   \* 25: 0xbce192de8a85b8ea
    << 5619, 23483, 13752,  6104>>,   \* 26: 0x17d835b85bbb15f3
    <<53165,  1899, 24931, 12078>>,   \* 27: 0x2f2e6163076bcfad
    <<51621, 42781, 43692, 56909>>,   \* 28: 0xde4daaaca71dc9a5
    <<25969, 34709, 20582, 42658>>,   \* 29: 0xa6a2506687956571
    <<61224, 23625, 41811, 44423>>,   \* 30: 0xad87a3535c49ef28
    <<49986, 55361, 37626, 13016>>,   \* 31: 0x32d892fad841c342
    <<31950, 29426, 20783, 28967>>,   \* 32: 0x7127512f72f27cce
    <<30947, 63833,  9030, 42995>>,   \* 33: 0xa7f32346f95978e3
    << 4664, 47877, 45082,  4832>>,   \* 34: 0x12e0b01abb051238
    <<38830,  4001, 13524,  5600>>,   \* 35: 0x15e034d40fa197ae
    <<41908,  2069, 65470, 12621>>,   \* 36: 0x314dffbe0815a3b4
    <<14721, 10594, 37104,   633>>,   \* 37: 0x027990f029623981
    << 3149, 40692, 54501, 51932>>,   \* 38: 0xcadcd4e59ef40c4d
    <<29532, 27187, 55414, 39615>>,   \* 39: 0x9abfd8766a33735c
    <<42960, 21252, 43371,  3646>>,   \* 40: 0x0e3ea96b5304a7d0
    <<22930, 64600, 17110, 44300>>,   \* 41: 0xad0c42d6fc585992
    << 5545, 39874,  1736,  6259>>,   \* 42: 0x187306c89bc215a9
    <<11157, 62329,  2748, 54438>>,   \* 43: 0xd4a60abcf3792b95
    << 7666, 58610, 17693, 63797>>,   \* 44: 0xf935451de4f21df2
    <<22407,  6517, 36612, 43347>>,   \* 45: 0xa9538f0419755787
    <<42256, 62828, 52703, 56218>>,   \* 46: 0xdb9acddff56ca510
    <<30187, 23561, 39117, 53356>>,   \* 47: 0xd06c98cd5c0975eb
    <<43345, 40651, 41931, 58898>>,   \* 48: 0xe612a3cb9ecba951
    <<44950, 64685, 58924, 51046>>,   \* 49: 0xc766e62cfcadaf96
    <<65138, 38738, 17242, 61028>>,   \* 50: 0xee64435a9752fe72
    << 5722, 45637, 54646, 41362>>,   \* 51: 0xa192d576b245165a
    <<29874, 36555, 34751,  2695>>,   \* 52: 0x0a8787bf8ecb74b2
    <<39791,  8372, 59197, 33203>>,   \* 53: 0x81b3e73d20b49b6f
    <<60650, 41906,  8715, 32680>>,   \* 54: 0x7fa8220ba3b2ecea
    << 9369, 15524, 12737,  9303>>,   \* 55: 0x245731c13ca42499
    <<33725, 14989, 49071, 46989>>,   \* 56: 0xb78dbfaf3a8d83bd
    << 6667, 12842, 54629, 59930>>,   \* 57: 0xea1ad565322a1a0b
    <<20499, 41849,  7203, 24806>>,   \* 58: 0x60e61c23a3795013
    <<11155, 17960, 55268, 26118>>,   \* 59: 0x6606d7e446282b93
    <<37345, 23647, 60593, 27812>>,   \* 60: 0x6ca4ecb15c5f91e1
    << 9715, 23702, 28065, 40802>>,   \* 61: 0x9f626da15c9625f3
    <<24407, 36594, 14432, 58651>>,   \* 62: 0xe51b38608ef25f57
    <<17778, 60166, 12876, 38282>>    \* 63: 0x958a324ceb064572
>>

\* the inputs of the test set: for each length n the bytes 0 .. n - 1
RefInputs == {[j \in 1..n |-> j - 1] : n \in 0..(Len(RefDigest) - 1)}

\* an engine constructed with the test keys, to be given one input
RefInit ==
    /\ key = <<RefK0, RefK1>>
    /\ msg \in RefInputs
    /\ st = new_with_keys(key[1], key[2])
    /\ shadow = st
    /\ start = 0
    /\ pos = 0
    /\ fed = 0
    /\ nresets = 0
    /\ op = "new"
    /\ branch = "none"
    /\ ret = NoRet
    /\ streak = 0
    /\ ok = TRUE
    /\ NoCalls

\* state.write(msg): the whole input in one call
RefAbsorb ==
    /\ op = "new"
    /\ LET w == write(st, msg)
       IN  /\ st' = w.self
           /\ shadow' = w.self
           /\ ok' = (ok /\ w.ok)
    /\ branch' = branchOf(st, msg)
    /\ fed' = fed + Len(msg)
    /\ pos' = Len(msg)
    /\ op' = "write"
    /\ ret' = NoRet
    /\ streak' = 0
    /\ UNCHANGED <<key, msg, start, nresets, mvars>>

RefNext ==
    \/ RefAbsorb
    \/ Finalize

RefSpec == RefInit /\ [][RefNext]_vars

(* ------------------------------------------------------------------ *)
(* Properties                                                          *)
(* ------------------------------------------------------------------ *)

\* the 64-bit words
Word == [1..4 -> 0..65535]

\* the digest of a freshly constructed engine that is given buf in one write
OneShot(buf) == result(write(new_with_keys(key[1], key[2]), buf).self).digest

\* C1: chunking invariance. An engine that was constructed and never reset,
\* and has been given the bytes of the message in any number of write calls,
\* yields the digest of a fresh engine given the same bytes in one write.
ChunkingInvariance ==
    nresets = 0 => result(st).digest = OneShot(absorbed)

\* the last write flushed a pending tail and at least 16 bytes are in
ChunkingWitness ==
    nresets = 0 /\ op = "write" /\ branch = "flush" /\ pos >= 16

\* C2: right after reset the engine equals, field for field, the engine
\* new_with_keys builds from the same keys.
ResetRestoresConstruction ==
    op = "reset" => st = new_with_keys(key[1], key[2])

\* C3: the bytes of tail at positions >= ntail are zero, tail < 2^(8*ntail).
TailZeroPadded == Shr64(st.tail, 8 * st.ntail) = Zero64

\* C4: after a reset, whatever was written before it, the engine yields the
\* digest of a fresh engine with the same keys given the same writes.
ReuseAfterReset ==
    nresets >= 1 => result(st).digest = result(shadow).digest

\* C5: new_with_keys, reset, writes of X, result yields the digest of
\* new_with_keys, writes of X, result (no byte was written before the reset).
ResetEquivalence ==
    (nresets >= 1 /\ start = 0) => result(st).digest = result(shadow).digest

\* reset came before any byte, then at least 9 bytes were written
ResetEquivalenceWitness ==
    nresets >= 1 /\ start = 0 /\ pos >= 9 /\ op = "result"

\* C6: 0 <= ntail <= 7 in every reachable state.
NtailRange == st.ntail \in 0..7

\* the partial-fill branch brought ntail to 7
NtailRangeWitness == op = "write" /\ branch = "partial" /\ st.ntail = 7

\* C7: a result call leaves every field of the engine as it was.
FinalizeNoEffect == [][op' = "result" => st' = st]_vars

\* result was called with bytes pending in tail after a full block
FinalizeNoEffectWitness == op = "result" /\ st.ntail # 0 /\ fed >= 9

\* C8: two result calls in a row return the same value.
PureFinalize == [][(op = "result" /\ op' = "result") => ret' = ret]_vars

\* result was called twice in a row after bytes were written
PureFinalizeWitness == streak = 2 /\ fed >= 1 /\ ret \in Word

\* C9: no write call faults (indices inside the buffer, no unsigned
\* subtraction below zero, the block loop stops), and result returns a word.
Totality == ok /\ (op = "result" => ret \in Word)

\* a write of at least 9 bytes flushed a 7-byte tail and left bytes over
TotalityWitness ==
    ok /\ op = "write" /\ branch = "flush" /\ st.ntail # 0 /\ fed = MaxLen

\* C10: length is the sum of the lengths of the buffers written since
\* construction or the last reset, modulo 2^64.
LengthAccounting == st.length = U64(fed)

\* after a reset, a write that took the partial-fill branch
LengthAccountingWitness ==
    nresets >= 1 /\ op = "write" /\ branch = "partial" /\ fed >= 3

\* C13: the engine holds the keys given to new_with_keys in every state.
KeyImmutability == st.k0 = key[1] /\ st.k1 = key[2]

\* non-zero keys, after a reset and a write that flushed the tail
KeyImmutabilityWitness ==
    key[1] # Zero64 /\ nresets >= 1 /\ op = "write" /\ branch = "flush"

\* the little-endian word of the bytes b[1..Len(b)], Len(b) <= 8, built
\* limb by limb from byte pairs
LEByte(b, j) == IF j <= Len(b) THEN b[j] ELSE 0
LEWord(b) ==
    <<LEByte(b, 1) + 256 * LEByte(b, 2), LEByte(b, 3) + 256 * LEByte(b, 4),
      LEByte(b, 5) + 256 * LEByte(b, 6), LEByte(b, 7) + 256 * LEByte(b, 8)>>

\* the message round applied to words j..n of the byte string m, in order
RECURSIVE RefRounds(_, _, _, _)
RefRounds(v, m, j, n) ==
    IF j > n THEN v
    ELSE RefRounds(round(v, LEWord(SubSeq(m, 8 * j - 7, 8 * j))), m, j + 1, n)

\* C17: a never-reset engine that absorbed the n bytes M, in any chunking,
\* holds in v0..v3 the message rounds of the first n div 8 words of M, in
\* order, ntail = n mod 8, and in tail the last n mod 8 bytes of M.
AbsorbReference ==
    nresets = 0 =>
        LET n == Len(absorbed)
        IN  /\ locals(st) =
                 RefRounds(locals(new_with_keys(key[1], key[2])), absorbed,
                           1, n \div 8)
            /\ st.ntail = n % 8
            /\ st.tail = LEWord(SubSeq(absorbed, n - (n % 8) + 1, n))

\* two words mixed and one byte pending, the last write having flushed
AbsorbReferenceWitness ==
    nresets = 0 /\ op = "write" /\ branch = "flush" /\ pos = 17
    /\ st.ntail = 1

\* byte j (0..7) of the word w
ByteOf(w, j) == (w[(j \div 2) + 1] \div (IF j % 2 = 0 THEN 1 ELSE 256)) % 256

\* C18: a write that takes the partial-fill branch leaves v0..v3 as they
\* were, keeps the low ntail bytes of tail, puts the new bytes at byte
\* positions ntail .. ntail + len - 1 of tail, and adds len to ntail.
PartialFill ==
    [][(op' = "write" /\ branch' = "partial") =>
          LET len == pos' - pos
          IN  /\ locals(st') = locals(st)
              /\ st'.ntail = st.ntail + len
              /\ \A j \in 0..7 :
                    ByteOf(st'.tail, j) =
                        IF j < st.ntail THEN ByteOf(st.tail, j)
                        ELSE IF j < st.ntail + len
                             THEN msg[pos + 1 + (j - st.ntail)]
                             ELSE ByteOf(st.tail, j)]_vars

\* a partial fill of at least two bytes onto a pending tail, after a block
PartialFillWitness ==
    op = "write" /\ branch = "partial" /\ st.ntail >= 4 /\ fed >= 12

\* C19: a write of the empty buffer does not change what result returns.
EmptyAbsorbNoOp ==
    [][(op' = "write" /\ pos' = pos) =>
          result(st').digest = result(st).digest]_vars

\* C20: the top byte of tail is zero, so in b = (length & 0xff) << 56 | tail
\* the top byte is length mod 256 and the low seven bytes are tail.
PaddingNoOverlap ==
    /\ Shr64(st.tail, 56) = Zero64
    /\ Shr64(padword(st), 56) = U64(fed % 256)
    /\ Shr64(Shl64(padword(st), 8), 8) = st.tail

\* right after a reset that left seven bytes in tail
PaddingNoOverlapWitness ==
    op = "reset" /\ st.tail # Zero64 /\ ByteOf(st.tail, 6) # 0


\* the call sites that have their digest
Done == {p \in Procs : pc[p] = "done"}

\* C11: default-key equivalence. hash(x) returns what
\* hash_with_keys(0, 0, x) returns and what SipHasher::new().hash(x)
\* returns, whichever of the three entry points was the one stepped through.
DefaultKeyEquivalence ==
    \A p \in Done :
        KeysOf(call[p]) = <<Zero64, Zero64>> =>
            /\ out[p] = hash(call[p].value)
            /\ out[p] = hash_with_keys(Zero64, Zero64, call[p].value)
            /\ out[p] = SipHasher_hash(SipHasher_new, call[p].value)

\* hash(x) has returned for the three-buffer value at one call site and
\* hash_with_keys(0, 0, x) for the same value at the other
DefaultKeyEquivalenceWitness ==
    /\ Done = Procs
    /\ call["a"].kind = "hash"
    /\ call["b"].kind = "hash_with_keys"
    /\ call["b"].k = <<Zero64, Zero64>>
    /\ call["a"].value = call["b"].value
    /\ Len(call["a"].value) = 3

\* C12: non-interference. Whatever the interleaving of the steps of the
\* calls, a call returns the digest it returns when run alone, and a step
\* of one call changes nothing of another call's engine, descriptor or
\* result, nor any hasher.
NonInterference ==
    [][/\ hasher' = hasher
       /\ \A p \in Procs :
             /\ pc'[p] = "done" => out'[p] = Alone(call'[p])
             /\ (pc'[p] = pc[p] /\ idx'[p] = idx[p]) =>
                   /\ out'[p] = out[p]
                   /\ p \in DOMAIN call => call'[p] = call[p]
                   /\ p \in DOMAIN eng =>
                         (p \in DOMAIN eng' /\ eng'[p] = eng[p])]_vars

\* two calls on the same keyed hasher are both part-way through their
\* value, with bytes pending in both engines
NonInterferenceWitness ==
    /\ DOMAIN eng = Procs
    /\ \A p \in Procs :
          /\ call[p].kind = "Hasher::hash"
          /\ call[p].h = "keyed"
          /\ idx[p] >= 1
          /\ idx[p] < Len(call[p].value)
          /\ eng[p].ntail # 0

\* C14: determinism. Two calls under the same keys for values that write
\* the same buffers return the same digest, and no call changes a hasher.
Determinism ==
    /\ hasher = HasherPool
    /\ \A p \in Done : \A q \in Done :
          (KeysOf(call[p]) = KeysOf(call[q])
              /\ call[p].value = call[q].value) => out[p] = out[q]

\* two calls of the keyed hasher's hash on the three-buffer value have
\* both returned
DeterminismWitness ==
    /\ Done = Procs
    /\ \A p \in Procs :
          /\ call[p].kind = "Hasher::hash"
          /\ call[p].h = "keyed"
          /\ Len(call[p].value) = 3

\* C15: copy independence. clone gives an engine with the fields of the
\* original and leaves the original as it was; a write or reset on one of
\* the two leaves every field of the other unchanged; and whenever both
\* have been given the same calls since the clone their digests are equal.
CopyIndependence ==
    [][/\ (DOMAIN eng = {"a"} /\ DOMAIN eng' = Procs) =>
             (eng'["b"] = eng["a"] /\ eng'["a"] = eng["a"])
       /\ \A p \in Procs :
             (DOMAIN eng = Procs /\ log'[p] = log[p]) => eng'[p] = eng[p]
       /\ (DOMAIN eng' = Procs /\ log'["a"] = log'["b"]) =>
             result(eng'["a"]).digest = result(eng'["b"]).digest]_vars

\* the engine was cloned with five bytes pending, then both engines were
\* given the same two buffers
CopyIndependenceWitness ==
    /\ DOMAIN eng = Procs
    /\ log["a"] = <<CopyChunk, CopyChunk>>
    /\ log["b"] = log["a"]
    /\ idx["a"] = 3 * CopyChunk
    /\ eng["b"].length = U64(3 * CopyChunk)


\* C16: reference vectors. Under the keys 0x0706050403020100 and
\* 0x0f0e0d0c0b0a0908, result returns the published digest of the bytes
\* written: of the input 0 .. n - 1 after the write, for each n in 0..63,
\* and of the empty input before it.
ReferenceVectors == op = "result" => ret = RefDigest[pos + 1]

\* the 63-byte input has been written and result has returned
ReferenceVectorsWitness ==
    op = "result" /\ branch = "direct" /\ pos = Len(RefDigest) - 1


====
